---- MODULE Spec2Model ----
(***************************************************************************)
(* Verification model of mmseg/models/backbones/mix_transformer_gt_omega.py *)
(* (SegFormerGTOmega: windowing utility, Local Attention, Global-Token      *)
(* Attention, Block, the four-stage encoder loop and init_weights).         *)
(*                                                                          *)
(* Reading of the source.  The file has two syntax slips and three unbound  *)
(* names; they are read by their evident binding, because otherwise the     *)
(* module has no behaviour at all:                                          *)
(*   line 229  `gt_num=1, dim, num_heads`: every caller passes keywords;    *)
(*   line 262  `if self.gt_num != 0 and :` is read `and self.do_gmsa`, the  *)
(*             only flag __init__ stores for that branch (line 238);        *)
(*   line 295  `embed_dims[k]` is read `self.embed_dims[k]` (line 290);     *)
(*   line 241  `mlp_hidden_dim`, line 62 `DWConv`: values no modelled       *)
(*             quantity depends on.                                         *)
(* Everything the interpreter decides at run time (shapes, indexing,        *)
(* argument counts, operand types) is modelled as the statements compute    *)
(* it, a raised exception included.                                         *)
(*                                                                          *)
(* Tensors are records [err, shape, data]: data is the row-major flattening *)
(* (what .contiguous() fixes), err is "none" or the exception raised.       *)
(* Each component is one record-valued variable; each specification runs    *)
(* one component and leaves the others idle.                                *)
(***************************************************************************)
EXTENDS Integers, Sequences, FiniteSets, TLC

VARIABLES win, attn, ca, rg, blk, fwd, iw

vars == <<win, attn, ca, rg, blk, fwd, iw>>

Idle == [pc |-> "idle"]

\* ------------------------------------------------------------------------
\* Bounds of the windowing check.
MaxB == 2
MaxC == 2
MaxWs == 3
MaxTiles == 2

\* ------------------------------------------------------------------------
\* Tensor helpers (torch semantics on the row-major flattening).

RECURSIVE Prod(_)
Prod(s) == IF s = <<>> THEN 1 ELSE Head(s) * Prod(Tail(s))

Tensor(shape, data) == [err |-> "none", shape |-> shape, data |-> data]

Raised(e) == [err |-> e, shape |-> <<>>, data |-> <<>>]

\* The 0-based index along dimension d (1-based) of the element at 0-based
\* flat offset k of a contiguous tensor of the given shape.
IndexAt(k, shape, d) == (k \div Prod(SubSeq(shape, d + 1, Len(shape)))) % shape[d]

\* 0-based flat offset of the 0-based index tuple idx in a contiguous tensor.
RECURSIVE Offset(_, _)
Offset(idx, shape) ==
    IF idx = <<>> THEN 0
    ELSE Head(idx) * Prod(Tail(shape)) + Offset(Tail(idx), Tail(shape))

\* Tensor.view(*shape): same storage, new shape; raises when the element
\* counts differ.  A -1 entry is resolved by the caller (ViewInfer).
TorchView(t, shape) ==
    IF t.err # "none" THEN t
    ELSE IF Prod(shape) = Prod(t.shape) /\ \A i \in 1..Len(shape) : shape[i] >= 0
         THEN Tensor(shape, t.data)
         ELSE Raised("RuntimeError")

\* The value torch infers for a single -1 dimension, given the product of
\* the other dimensions; 0 marks "not divisible" (view then raises).
ViewInfer(t, others) ==
    IF others > 0 /\ Prod(t.shape) % others = 0 THEN Prod(t.shape) \div others ELSE 0

\* Tensor.permute(*dims).contiguous(): dims are 0-based as in the source.
\* Output dimension j is input dimension dims[j].
TorchPermute(t, dims) ==
    IF t.err # "none" THEN t
    ELSE LET n == Len(dims)
             newShape == [j \in 1..n |-> t.shape[dims[j] + 1]]
             inv(d) == CHOOSE j \in 1..n : dims[j] + 1 = d
             src(k) == Offset([d \in 1..n |-> IndexAt(k, newShape, inv(d))], t.shape)
         IN Tensor(newShape, [k \in 1..Prod(newShape) |-> t.data[src(k - 1) + 1]])

\* ------------------------------------------------------------------------
\* window_partition(x, window_size), window_size an int (lines 24-36).

window_partition(x, window_size) ==
    LET B == x.shape[1]
        H == x.shape[2]
        W == x.shape[3]
        C == x.shape[4]
        v == TorchView(x, <<B, H \div window_size, window_size,
                            W \div window_size, window_size, C>>)
        p == TorchPermute(v, <<0, 1, 3, 2, 4, 5>>)
    IN IF p.err # "none" THEN p
       ELSE TorchView(p, <<ViewInfer(p, window_size * window_size * C),
                           window_size, window_size, C>>)

\* The batch size window_reverse recovers (line 50):
\* int(windows.shape[0] / (H * W / window_size / window_size)), the true
\* divisions taken exactly.
ReverseBatch(n, window_size, H, W) == (n * window_size * window_size) \div (H * W)

window_reverse_NoPermute(windows, window_size, H, W) ==
    LET B == ReverseBatch(windows.shape[1], window_size, H, W)
        per == B * (H \div window_size) * (W \div window_size) * window_size * window_size
        v == TorchView(windows, <<B, H \div window_size, W \div window_size,
                                  window_size, window_size, ViewInfer(windows, per)>>)
    IN IF v.err # "none" THEN v
       ELSE TorchView(v, <<B, H, W, ViewInfer(v, B * H * W)>>)

\* window_reverse(windows, window_size, H, W) (lines 39-53).
window_reverse(windows, window_size, H, W) ==
    LET B == ReverseBatch(windows.shape[1], window_size, H, W)
        per == B * (H \div window_size) * (W \div window_size) * window_size * window_size
        v == TorchView(windows, <<B, H \div window_size, W \div window_size,
                                  window_size, window_size, ViewInfer(windows, per)>>)
        p == TorchPermute(v, <<0, 1, 3, 2, 4, 5>>)
    IN IF p.err # "none" THEN p
       ELSE TorchView(p, <<B, H, W, ViewInfer(p, B * H * W)>>)

\* A tensor whose elements are pairwise distinct: any misplaced element of a
\* rearrangement shows.  `base` varies the values themselves.
Iota(shape, base) == Tensor(shape, [k \in 1..Prod(shape) |-> base + k])

\* ------------------------------------------------------------------------
\* Specification SpecWin: partition a tensor, then reverse it.

WinInit ==
    /\ \E B \in 1..MaxB, C \in 1..MaxC, ws \in 1..MaxWs,
          th \in 1..MaxTiles, tw \in 1..MaxTiles, base \in {0, 100} :
          win = [pc |-> "start", window_size |-> ws, H |-> th * ws, W |-> tw * ws,
                 x |-> Iota(<<B, th * ws, tw * ws, C>>, base),
                 windows |-> Raised("unset"), out |-> Raised("unset")]
    /\ attn = Idle /\ ca = Idle /\ rg = Idle /\ blk = Idle /\ fwd = Idle /\ iw = Idle

WinPartition ==
    /\ win.pc = "start"
    /\ win' = [win EXCEPT !.pc = "partitioned",
                          !.windows = window_partition(win.x, win.window_size)]
    /\ UNCHANGED <<attn, ca, rg, blk, fwd, iw>>

WinReverse ==
    /\ win.pc = "partitioned"
    /\ win' = [win EXCEPT !.pc = "reversed",
                          !.out = window_reverse(win.windows, win.window_size, win.H, win.W)]
    /\ UNCHANGED <<attn, ca, rg, blk, fwd, iw>>

WinNext == WinPartition \/ WinReverse

SpecWin == WinInit /\ [][WinNext]_vars

\* C1: for every B, C, window size ws >= 1 and H, W positive multiples of ws,
\* window_reverse(window_partition(x, ws), ws, H, W) has the shape of x and
\* the same value at every index, the partition has B*(H/ws)*(W/ws) windows
\* of shape (ws, ws, C), and the batch size window_reverse recovers from the
\* window count is B.
C1_RoundTrip ==
    /\ win.pc \in {"partitioned", "reversed"} =>
          /\ win.windows.err = "none"
          /\ win.windows.shape =
                <<win.x.shape[1] * (win.H \div win.window_size) * (win.W \div win.window_size),
                  win.window_size, win.window_size, win.x.shape[4]>>
          /\ ReverseBatch(win.windows.shape[1], win.window_size, win.H, win.W)
                = win.x.shape[1]
    /\ win.pc = "reversed" => win.out = win.x

C1_Witness ==
    /\ win.pc = "reversed"
    /\ win.window_size > 1
    /\ win.H > win.window_size
    /\ win.W > win.window_size
    /\ win.x.shape[1] > 1
    /\ win.x.shape[4] > 1
    /\ win.windows.data # win.x.data
    /\ win.out = win.x

\* ------------------------------------------------------------------------
\* Bounds of the Local Attention check.
MaxH == 4
MaxWin == 3
MaxGt == 2

\* F.pad(x, pad): pad lists (left, right) pairs from the LAST dimension
\* backwards; new cells are zero.
TorchPad(t, p) ==
    LET n == Len(t.shape)
        lo(d) == IF 2 * (n - d) + 1 <= Len(p) THEN p[2 * (n - d) + 1] ELSE 0
        hi(d) == IF 2 * (n - d) + 2 <= Len(p) THEN p[2 * (n - d) + 2] ELSE 0
        newShape == [d \in 1..n |-> lo(d) + t.shape[d] + hi(d)]
        at(k, d) == IndexAt(k, newShape, d) - lo(d)
        inside(k) == \A d \in 1..n : at(k, d) >= 0 /\ at(k, d) < t.shape[d]
    IN Tensor(newShape,
              [k \in 1..Prod(newShape) |->
                  IF inside(k - 1)
                  THEN t.data[Offset([d \in 1..n |-> at(k - 1, d)], t.shape) + 1]
                  ELSE 0])

\* A Python value that is an int or a tuple of ints.
PyInt(n) == [kind |-> "int", val |-> n, items |-> <<>>]
PyTuple(s) == [kind |-> "tuple", val |-> 0, items |-> s]

AttnPadAmountNoWrap(ws, d) == ws - (d % ws)

\* (window_size[k] - D % window_size[k]) % window_size[k]  (lines 179-180).
AttnPadAmount(ws, d) == (ws - (d % ws)) % ws

\* window_partition as Attention.forward calls it (line 184): line 34
\* evaluates H // window_size, which raises TypeError when window_size is
\* not an int.
window_partition_call(x, window_size) ==
    IF window_size.kind = "int" THEN window_partition(x, window_size.val)
    ELSE Raised("TypeError")

\* ------------------------------------------------------------------------
\* Specification SpecAttn: Attention.forward(x, H, W, gt), statement by
\* statement.  self.window_size is the 2-tuple of Attention.__init__
\* (line 151; Block.__init__, line 233, never passes another); gt is the
\* un-batched (gt_num, C) parameter forward_features hands the first block.

AttnInit ==
    /\ \E B \in 1..MaxB, H \in 1..MaxH, W \in 1..MaxH, C \in 1..MaxC,
          wh \in 1..MaxWin, ww \in 1..MaxWin, g \in 0..MaxGt :
          attn = [pc |-> "l177", B |-> B, H |-> H, W |-> W, C |-> C, gt_num |-> g,
                  window_size |-> PyTuple(<<wh, ww>>),
                  gt_shape |-> <<g, C>>,
                  x_in |-> Iota(<<B, H * W, C>>, 0),
                  x |-> Iota(<<B, H * W, C>>, 0),
                  pad |-> <<0, 0, 0, 0>>, Hp |-> 0, Wp |-> 0,
                  x_windows |-> Raised("unset"),
                  ret_x |-> <<>>, ret_gt |-> <<>>, err |-> "none"]
    /\ win = Idle /\ ca = Idle /\ rg = Idle /\ blk = Idle /\ fwd = Idle /\ iw = Idle

\* line 177: x = x.view(B, H, W, C)
AttnView ==
    /\ attn.pc = "l177"
    /\ attn' = [attn EXCEPT !.pc = "l178",
                            !.x = TorchView(attn.x, <<attn.B, attn.H, attn.W, attn.C>>)]
    /\ UNCHANGED <<win, ca, rg, blk, fwd, iw>>

\* lines 178-182: the pad amounts, F.pad, and Hp, Wp read back from x.shape.
\* pad is kept as (pad_l, pad_r, pad_t, pad_b).
AttnPad ==
    /\ attn.pc = "l178"
    /\ LET pad_l == 0
           pad_t == 0
           pad_b == AttnPadAmount(attn.window_size.items[1], attn.H)
           pad_r == AttnPadAmount(attn.window_size.items[2], attn.W)
           x == TorchPad(attn.x, <<0, 0, pad_l, pad_r, pad_t, pad_b>>)
       IN attn' = [attn EXCEPT !.pc = "l184", !.x = x,
                               !.pad = <<pad_l, pad_r, pad_t, pad_b>>,
                               !.Hp = x.shape[2], !.Wp = x.shape[3]]
    /\ UNCHANGED <<win, ca, rg, blk, fwd, iw>>

\* line 184: x_windows = window_partition(x, self.window_size).  The call
\* raises for the tuple, so lines 185-224 are never executed.
AttnWindowPartition ==
    /\ attn.pc = "l184"
    /\ LET w == window_partition_call(attn.x, attn.window_size)
       IN attn' = [attn EXCEPT !.pc = IF w.err = "none" THEN "l185" ELSE "raised",
                               !.x_windows = w, !.err = w.err]
    /\ UNCHANGED <<win, ca, rg, blk, fwd, iw>>

AttnNext == AttnView \/ AttnPad \/ AttnWindowPartition

SpecAttn == AttnInit /\ [][AttnNext]_vars

AttnPadded == attn.pc \in {"l184", "l185", "raised", "returned"}

\* C10: after the padding step of Local Attention, Hp (Wp) is the smallest
\* multiple of the window height (width) that is >= H (W); each pad amount
\* lies in 0..ws-1 and is 0 exactly when the dimension is divisible; the
\* leading pads are 0 and the new cells are exactly the trailing rows and
\* columns (the original values stay at their indices, the rest is zero);
\* so Hp and Wp are divisible by the window size.
C10_Padding ==
    AttnPadded =>
        LET wh == attn.window_size.items[1]
            ww == attn.window_size.items[2]
            pad_l == attn.pad[1]
            pad_r == attn.pad[2]
            pad_t == attn.pad[3]
            pad_b == attn.pad[4]
        IN /\ pad_l = 0 /\ pad_t = 0
           /\ pad_b \in 0..(wh - 1) /\ pad_r \in 0..(ww - 1)
           /\ (pad_b = 0) <=> (attn.H % wh = 0)
           /\ (pad_r = 0) <=> (attn.W % ww = 0)
           /\ attn.Hp = attn.H + pad_b /\ attn.Wp = attn.W + pad_r
           /\ attn.Hp % wh = 0 /\ attn.Wp % ww = 0
           /\ \A m \in attn.H..(attn.Hp - 1) : m % wh # 0
           /\ \A m \in attn.W..(attn.Wp - 1) : m % ww # 0
           /\ attn.x.shape = <<attn.B, attn.Hp, attn.Wp, attn.C>>
           /\ \A b \in 0..(attn.B - 1), h \in 0..(attn.Hp - 1),
                 w \in 0..(attn.Wp - 1), c \in 0..(attn.C - 1) :
                 attn.x.data[Offset(<<b, h, w, c>>, attn.x.shape) + 1] =
                    IF h < attn.H /\ w < attn.W
                    THEN attn.x_in.data[Offset(<<b, h * attn.W + w, c>>,
                                               attn.x_in.shape) + 1]
                    ELSE 0

C10_Witness ==
    /\ AttnPadded
    /\ attn.pad[4] > 1
    /\ attn.pad[2] > 0
    /\ attn.H > attn.window_size.items[1]
    /\ attn.Hp = 2 * attn.window_size.items[1]

\* C4 (Local Attention half and Global-Token Attention half): a finished
\* call has returned; Local Attention returns tokens of shape (B, H*W, C)
\* and global tokens of sequence length gt_num; Global-Token Attention
\* returns the shape (B, N, C) of its input.
C4_ShapeInvariance ==
    /\ attn.pc \in {"raised", "returned"} =>
          /\ attn.pc = "returned"
          /\ attn.ret_x = <<attn.B, attn.H * attn.W, attn.C>>
          /\ Len(attn.ret_gt) = 3 /\ attn.ret_gt[2] = attn.gt_num
    /\ ca.pc \in {"raised", "returned"} =>
          /\ ca.pc = "returned"
          /\ ca.ret = <<ca.B_, ca.N, ca.C>>

\* ------------------------------------------------------------------------
\* Bounds of the Global-Token Attention check.
MaxSeq == 4
MaxTable == 4
MaxHeads == 2

Min(a, b) == IF a < b THEN a ELSE b
Max(a, b) == IF a > b THEN a ELSE b

\* Python's seq[start:stop] on a sequence of length n: the 0-based indices
\* read.  A negative bound counts from the end; both are then clamped.
PySlice(n, start, stop) ==
    LET lo == IF start < 0 THEN Max(start + n, 0) ELSE Min(start, n)
        hi == IF stop < 0 THEN Max(stop + n, 0) ELSE Min(stop, n)
    IN [i \in 1..Max(hi - lo, 0) |-> lo + i - 1]

CAStartFromZero(m, N) == 0

\* strt = m//2 - N//2  (line 130).
CAStart(m, N) == (m \div 2) - (N \div 2)

\* pe[strt:strt+N, :] (line 131) as a tensor of the rows read.
CASliceRows(pe, rows) ==
    LET C == pe.shape[2]
    IN Tensor(<<Len(rows), C>>,
              [k \in 1..(Len(rows) * C) |->
                  pe.data[rows[((k - 1) \div C) + 1] * C + ((k - 1) % C) + 1]])

\* x + pe (line 132), x of shape (B_, N, C) and pe of shape (r, C): torch
\* broadcasts pe over the batch, and over the rows when r = 1; any other
\* r # N raises.
CAAddPe(x, pe) ==
    LET N == x.shape[2]
        C == x.shape[3]
        r == pe.shape[1]
    IN IF pe.shape[2] # C \/ (r # N /\ r # 1 /\ N # 1) THEN Raised("RuntimeError")
       ELSE LET n2 == Max(N, r)
                xi(b, n, c) == x.data[Offset(<<b, IF N = 1 THEN 0 ELSE n, c>>, x.shape) + 1]
                pi(n, c) == pe.data[Offset(<<IF r = 1 THEN 0 ELSE n, c>>, pe.shape) + 1]
            IN Tensor(<<x.shape[1], n2, C>>,
                      [k \in 1..(x.shape[1] * n2 * C) |->
                          LET b == IndexAt(k - 1, <<x.shape[1], n2, C>>, 1)
                              n == IndexAt(k - 1, <<x.shape[1], n2, C>>, 2)
                              c == IndexAt(k - 1, <<x.shape[1], n2, C>>, 3)
                          IN xi(b, n, c) + pi(n, c)])

\* ------------------------------------------------------------------------
\* Specification SpecCA: ClassicAttention.forward(x, pe), x of shape
\* (B_, N, C) and pe a table of m rows of C channels.

CAInit ==
    /\ \E B_ \in 1..MaxB, N \in 1..MaxSeq, m \in 1..MaxTable, C \in 1..MaxC,
          heads \in 1..MaxHeads :
          ca = [pc |-> "l127", B_ |-> B_, N |-> N, C |-> C, m |-> m,
                num_heads |-> heads,
                x_in |-> Iota(<<B_, N, C>>, 0),
                x |-> Iota(<<B_, N, C>>, 0),
                pe_table |-> Iota(<<m, C>>, 1000),
                strt |-> 0, rows |-> <<>>, pe |-> Raised("unset"),
                ret |-> <<>>, err |-> "none"]
    /\ win = Idle /\ attn = Idle /\ rg = Idle /\ blk = Idle /\ fwd = Idle /\ iw = Idle

\* lines 127-131: the centred slice of the table.
CASlice ==
    /\ ca.pc = "l127"
    /\ LET strt == CAStart(ca.m, ca.N)
           rows == PySlice(ca.m, strt, strt + ca.N)
       IN ca' = [ca EXCEPT !.pc = "l132", !.strt = strt, !.rows = rows,
                           !.pe = CASliceRows(ca.pe_table, rows)]
    /\ UNCHANGED <<win, attn, rg, blk, fwd, iw>>

\* line 132: x = x + pe.
CAAdd ==
    /\ ca.pc = "l132"
    /\ LET x == CAAddPe(ca.x, ca.pe)
       IN ca' = [ca EXCEPT !.pc = IF x.err = "none" THEN "l134" ELSE "raised",
                           !.x = x, !.err = x.err]
    /\ UNCHANGED <<win, attn, rg, blk, fwd, iw>>

\* line 134: self.qkv(x) has shape (B_, N, 3*C); .reshape(B_, N, 3,
\* num_heads, C // num_heads) raises unless the element counts agree.
CAQkv ==
    /\ ca.pc = "l134"
    /\ LET have == ca.x.shape[1] * ca.x.shape[2] * 3 * ca.C
           want == ca.B_ * ca.N * 3 * ca.num_heads * (ca.C \div ca.num_heads)
       IN ca' = [ca EXCEPT !.pc = IF have = want THEN "l135" ELSE "raised",
                           !.err = IF have = want THEN "none" ELSE "RuntimeError"]
    /\ UNCHANGED <<win, attn, rg, blk, fwd, iw>>

\* lines 135-146: q, k, v are (B_, heads, N, C // heads); attn @ v has that
\* shape; .transpose(1, 2).reshape(B_, N, C); proj and dropout keep it.
CAReturn ==
    /\ ca.pc = "l135"
    /\ ca' = [ca EXCEPT !.pc = "returned", !.ret = <<ca.B_, ca.N, ca.C>>]
    /\ UNCHANGED <<win, attn, rg, blk, fwd, iw>>

CANext == CASlice \/ CAAdd \/ CAQkv \/ CAReturn

SpecCA == CAInit /\ [][CANext]_vars

CASliced == ca.pc \in {"l132", "l134", "l135", "raised", "returned"}

\* The slice statement of the original claim, for a given table length and
\* sequence length.
CASliceCentred ==
    LET start == (ca.m \div 2) - (ca.N \div 2)
    IN /\ ca.strt = start
       /\ 0 <= start /\ start + ca.N <= ca.m
       /\ ca.rows = [i \in 1..ca.N |-> start + i - 1]
       /\ ca.pe.shape = <<ca.N, ca.C>>
       /\ (ca.N = ca.m => ca.rows = [i \in 1..ca.m |-> i - 1])
       /\ ca.pc \in {"l134", "l135", "returned"} =>
             \A b \in 0..(ca.B_ - 1), n \in 0..(ca.N - 1), c \in 0..(ca.C - 1) :
                 ca.x.data[Offset(<<b, n, c>>, ca.x_in.shape) + 1] =
                     ca.x_in.data[Offset(<<b, n, c>>, ca.x_in.shape) + 1]
                     + ca.pe_table.data[Offset(<<start + n, c>>, ca.pe_table.shape) + 1]

MaxWindows == 3
MaxTokens == 2

\* einops.rearrange for patterns over four elementary axes: the input is
\* read as inShape4 (its composed axes split), the axes are put in the
\* order perm (0-based positions in inShape4), and outShape composes them
\* again.  A size that does not divide raises EinopsError.
Rearrange4(t, inShape4, perm, outShape) ==
    IF t.err # "none" THEN t
    ELSE IF Prod(inShape4) # Prod(t.shape) \/ \E i \in 1..4 : inShape4[i] < 1
         THEN Raised("EinopsError")
         ELSE TorchView(TorchPermute(TorchView(t, inShape4), perm), outShape)

\* nw = B // x.shape[0], B the batch size of gt  (lines 269-270).
BlkWindowCount(gtB, xB) == gtB \div xB

\* rearrange(gt, "(b n) g c -> b (n g) c", n=nw)  (line 271).
regroup_per_batch(gt, nw) ==
    LET b == gt.shape[1] \div nw
        g == gt.shape[2]
        c == gt.shape[3]
    IN Rearrange4(gt, <<b, nw, g, c>>, <<0, 1, 2, 3>>, <<b, nw * g, c>>)

regroup_per_window_TokenMajor(gt, ngt, c) ==
    LET b == gt.shape[1]
        n == gt.shape[2] \div ngt
    IN IF gt.shape[3] # c THEN Raised("EinopsError")
       ELSE Rearrange4(gt, <<b, ngt, n, c>>, <<0, 2, 1, 3>>, <<b * n, ngt, c>>)

\* rearrange(gt, "b (n g) c -> (b n) g c", g=ngt, c=c)  (line 275).
regroup_per_window(gt, ngt, c) ==
    LET b == gt.shape[1]
        n == gt.shape[2] \div ngt
    IN IF gt.shape[3] # c THEN Raised("EinopsError")
       ELSE Rearrange4(gt, <<b, n, ngt, c>>, <<0, 1, 2, 3>>, <<b * n, ngt, c>>)

\* ------------------------------------------------------------------------
\* Specification SpecRg: the two regroupings of Block.forward applied to a
\* per-window global-token tensor gt of shape (b*n, g, c), x having batch b.

RgInit ==
    /\ \E b \in 1..MaxB, n \in 1..MaxWindows, g \in 1..MaxTokens, c \in 1..MaxC,
          base \in {0, 100} :
          rg = [pc |-> "l269", xB |-> b, gt |-> Iota(<<b * n, g, c>>, base),
                ngt |-> 0, c |-> 0, nw |-> 0,
                per_batch |-> Raised("unset"), out |-> Raised("unset")]
    /\ win = Idle /\ attn = Idle /\ ca = Idle /\ blk = Idle /\ fwd = Idle /\ iw = Idle

\* lines 269-271.
RgPerBatch ==
    /\ rg.pc = "l269"
    /\ LET nw == BlkWindowCount(rg.gt.shape[1], rg.xB)
       IN rg' = [rg EXCEPT !.pc = "l273", !.ngt = rg.gt.shape[2], !.c = rg.gt.shape[3],
                           !.nw = nw, !.per_batch = regroup_per_batch(rg.gt, nw)]
    /\ UNCHANGED <<win, attn, ca, blk, fwd, iw>>

\* line 275 (lines 273-274 change values, not the layout).
RgPerWindow ==
    /\ rg.pc = "l273"
    /\ rg' = [rg EXCEPT !.pc = "l277",
                        !.out = regroup_per_window(rg.per_batch, rg.ngt, rg.c)]
    /\ UNCHANGED <<win, attn, ca, blk, fwd, iw>>

RgNext == RgPerBatch \/ RgPerWindow

SpecRg == RgInit /\ [][RgNext]_vars

\* C6: regrouping a per-window tensor (b*n, g, c) gives the per-batch-element
\* layout (b, n*g, c) with token gi of window bi*n+ni at sequence position
\* ni*g+gi of batch element bi and the same number of tokens; regrouping
\* back returns the original tensor, shape and every element.
C6_RegroupRoundTrip ==
    /\ rg.pc \in {"l273", "l277"} =>
          LET g == rg.gt.shape[2]
              c == rg.gt.shape[3]
          IN /\ rg.nw * rg.xB = rg.gt.shape[1]
             /\ rg.per_batch.err = "none"
             /\ rg.per_batch.shape = <<rg.xB, rg.nw * g, c>>
             /\ rg.per_batch.shape[1] * rg.per_batch.shape[2]
                   = rg.gt.shape[1] * rg.gt.shape[2]
             /\ \A bi \in 0..(rg.xB - 1), ni \in 0..(rg.nw - 1),
                   gi \in 0..(g - 1), ci \in 0..(c - 1) :
                   rg.per_batch.data[Offset(<<bi, ni * g + gi, ci>>, rg.per_batch.shape) + 1]
                      = rg.gt.data[Offset(<<bi * rg.nw + ni, gi, ci>>, rg.gt.shape) + 1]
    /\ rg.pc = "l277" => rg.out = rg.gt

C6_Witness ==
    /\ rg.pc = "l277"
    /\ rg.xB > 1 /\ rg.nw > 1 /\ rg.ngt > 1 /\ rg.c > 1
    /\ rg.per_batch.shape # rg.gt.shape
    /\ rg.out = rg.gt

\* ------------------------------------------------------------------------
\* Values of Block.forward and forward_features.  The numeric layers (norm,
\* attention, MLP, drop-path, patch embedding) are uninterpreted: a value is
\* the term [op, id, args] naming the layer applied and what it was applied
\* to, so two values are equal only when the same layers were applied to the
\* same inputs in the same order.
T(op, args) == [op |-> op, id |-> <<>>, args |-> args]
TI(op, id, args) == [op |-> op, id |-> id, args |-> args]
NoTerm == T("none", <<>>)

\* What Attention.forward's return statement (line 224) hands back for the
\* arguments (x, gt): x[:, gt_num:, :] and x[:, :gt_num, :] of the projected
\* attention output, both of rank 3.
AttnRetX(x, gt) == T("attn.x", <<x, gt>>)
AttnRetGt(x, gt) == T("attn.gt", <<x, gt>>)

\* einops.repeat(t, "g c -> b g c", b=B): the pattern names two input axes,
\* so a tensor of any other rank raises EinopsError.
EinopsRepeat(t, rank) == IF rank = 2 THEN T("repeat", <<t>>) ELSE T("EinopsError", <<>>)

BlkReturnedGtSaved(b) == b.skip_gt

\* The global-token value `return x, gt` hands back (line 277).
BlkReturnedGt(b) == b.gt

\* ------------------------------------------------------------------------
\* Specification SpecBlk: Block.forward(x, H, W, gt, pe), statement by
\* statement.  The call self.attn(...) (line 257) either raises or returns
\* the pair of line 224; SpecAttn says which of the two Attention.forward as
\* written does, and Block.forward's own statements are followed for both.

BlkInit ==
    /\ \E do_gmsa \in BOOLEAN, g \in 0..MaxGt, rank \in {2, 3},
          xin \in {"x", "y"}, gin \in {"global_token", "gt"} :
          blk = [pc |-> "l252", do_gmsa |-> do_gmsa, gt_num |-> g,
                 x_in |-> T(xin, <<>>), gt_in |-> T(gin, <<>>), gt_in_rank |-> rank,
                 x |-> T(xin, <<>>), gt |-> T(gin, <<>>), gt_rank |-> rank,
                 skip |-> NoTerm, skip_gt |-> NoTerm, skip_gt_rank |-> 0,
                 attn_gt |-> NoTerm, repeat_src |-> NoTerm,
                 operand |-> NoTerm, residual |-> NoTerm,
                 ret_x |-> NoTerm, ret_gt |-> NoTerm, err |-> "none"]
    /\ win = Idle /\ attn = Idle /\ ca = Idle /\ rg = Idle /\ fwd = Idle /\ iw = Idle

\* lines 252-256: skip = x; skip_gt = gt; x = self.norm1(x).
BlkSave ==
    /\ blk.pc = "l252"
    /\ blk' = [blk EXCEPT !.pc = "l257", !.skip = blk.x, !.skip_gt = blk.gt,
                          !.skip_gt_rank = blk.gt_rank,
                          !.x = T("norm1", <<blk.x>>)]
    /\ UNCHANGED <<win, attn, ca, rg, fwd, iw>>

\* line 257, the call returning: x, gt = self.attn(x, H, W, gt).
BlkAttnReturns ==
    /\ blk.pc = "l257"
    /\ blk' = [blk EXCEPT !.pc = "l259",
                          !.x = AttnRetX(blk.x, blk.gt),
                          !.gt = AttnRetGt(blk.x, blk.gt),
                          !.gt_rank = 3,
                          !.attn_gt = AttnRetGt(blk.x, blk.gt)]
    /\ UNCHANGED <<win, attn, ca, rg, fwd, iw>>

\* line 257, the call raising (Attention.forward, line 184).
BlkAttnRaises ==
    /\ blk.pc = "l257"
    /\ blk' = [blk EXCEPT !.pc = "raised", !.err = "TypeError"]
    /\ UNCHANGED <<win, attn, ca, rg, fwd, iw>>

\* lines 259-260: the two token residuals.
BlkTokens ==
    /\ blk.pc = "l259"
    /\ LET x1 == T("add", <<blk.skip, T("drop_path", <<blk.x>>)>>)
           x2 == T("add", <<x1, T("drop_path", <<T("mlp", <<T("norm2", <<x1>>)>>)>>)>>)
       IN blk' = [blk EXCEPT !.pc = "l262", !.x = x2]
    /\ UNCHANGED <<win, attn, ca, rg, fwd, iw>>

BlkGmsaBranch(b) == b.gt_num # 0 /\ b.do_gmsa

\* line 262 false, line 277: return x, gt.
BlkReturn ==
    /\ blk.pc = "l262"
    /\ ~BlkGmsaBranch(blk)
    /\ blk' = [blk EXCEPT !.pc = "returned", !.ret_x = blk.x,
                          !.ret_gt = BlkReturnedGt(blk)]
    /\ UNCHANGED <<win, attn, ca, rg, fwd, iw>>

\* lines 263-264, global tokens arrived un-batched:
\* skip_gt = repeat(gt, "g c -> b g c", b=B), gt being the rank-3 result of
\* line 257, which einops rejects.
BlkRepeat ==
    /\ blk.pc = "l262"
    /\ BlkGmsaBranch(blk)
    /\ blk.skip_gt_rank # 3
    /\ LET r == EinopsRepeat(blk.gt, blk.gt_rank)
       IN blk' = [blk EXCEPT !.pc = IF r.op = "EinopsError" THEN "raised" ELSE "l265",
                             !.repeat_src = blk.gt,
                             !.skip_gt = IF r.op = "EinopsError" THEN blk.skip_gt ELSE r,
                             !.skip_gt_rank = IF r.op = "EinopsError" THEN blk.skip_gt_rank ELSE 3,
                             !.err = IF r.op = "EinopsError" THEN "EinopsError" ELSE "none"]
    /\ UNCHANGED <<win, attn, ca, rg, fwd, iw>>

\* line 265: gt = skip_gt + self.drop_path(self.gt_mlp1(self.norm2(gt))).
\* The operand self.norm2(gt) is evaluated, then gt_mlp1 is called with it
\* alone; ClassiqueMlp.forward(self, x, H, W) (line 84) needs H and W, so
\* the call raises TypeError and lines 269-275 are not reached.
BlkGtMlp1 ==
    /\ blk.pc \in {"l262", "l265"}
    /\ BlkGmsaBranch(blk)
    /\ blk.skip_gt_rank = 3
    /\ blk' = [blk EXCEPT !.pc = "raised", !.err = "TypeError",
                          !.operand = T("norm2", <<blk.gt>>),
                          !.residual = blk.skip_gt]
    /\ UNCHANGED <<win, attn, ca, rg, fwd, iw>>

BlkNext ==
    BlkSave \/ BlkAttnReturns \/ BlkAttnRaises \/ BlkTokens \/ BlkReturn
    \/ BlkRepeat \/ BlkGtMlp1

SpecBlk == BlkInit /\ [][BlkNext]_vars

C8_FirstGlobalSubStep ==
    LET saved == IF blk.gt_in_rank = 3 THEN blk.gt_in ELSE T("repeat", <<blk.gt_in>>)
    IN blk.do_gmsa =>
          /\ blk.repeat_src # NoTerm => blk.repeat_src = blk.gt_in
          /\ blk.operand # NoTerm =>
                /\ blk.operand.args = <<saved>>
                /\ blk.residual = saved

\* ------------------------------------------------------------------------
\* Configuration of SegFormerGTOmega (lines 290-291, 318-319, 325).
embed_dims == <<64, 128, 320, 512>>
num_heads == <<1, 2, 5, 8>>
depths == <<3, 8, 27, 3>>

\* Python's seq[i] for 0 <= i: in range, or IndexError.
PyInRange(seq, i) == i >= 0 /\ i < Len(seq)

\* len(mix.block1): mit_b4 is built with depths=[3, 8, 27, 3] (line 319) and
\* keeps depths[0] blocks in its first stage.
MixBlock1Len == depths[1]

\* do_gmsa = [True]*depths[s]; do_gmsa[-1] = False  (lines 333-334, 342-343,
\* 351-352, 360-361), s the 1-based stage.
DoGmsaList(s) == [k \in 1..depths[s] |-> k # depths[s]]

\* Bound of the init_weights check: the gt_num the model was built with.
MaxGtNum == 5

\* ------------------------------------------------------------------------
\* Specification SpecIW: init_weights(pretrained), one list-comprehension
\* iteration per step.  Each of the four comprehensions (lines 335-339,
\* 344-348, 353-357, 362-366) evaluates, for the block index i,
\* Block(mix.block1[i], self.gt_num, dim=self.embed_dims[i],
\*       num_heads=self.num_heads[i], ..., do_gmsa=do_gmsa[i]).

IWInit ==
    /\ \E g \in 0..MaxGtNum, pretrained \in {"None", "str"} :
          iw = [pc |-> "l318", gt_num |-> g, pretrained |-> pretrained,
                loaded |-> FALSE, stage |-> 0, i |-> 0, do_gmsa |-> <<>>,
                building |-> <<>>, blocks |-> <<>>, assigned |-> 0, err |-> "none"]
    /\ win = Idle /\ attn = Idle /\ ca = Idle /\ rg = Idle /\ blk = Idle /\ fwd = Idle

\* lines 318-330: build mix, load the checkpoint when pretrained is a str,
\* take over the patch embeddings.
IWMix ==
    /\ iw.pc = "l318"
    /\ iw' = [iw EXCEPT !.pc = "do_gmsa", !.stage = 1,
                        !.loaded = (iw.pretrained = "str")]
    /\ UNCHANGED <<win, attn, ca, rg, blk, fwd>>

\* the do_gmsa list of the stage.
IWDoGmsa ==
    /\ iw.pc = "do_gmsa"
    /\ iw' = [iw EXCEPT !.pc = "block", !.i = 0, !.building = <<>>,
                        !.do_gmsa = DoGmsaList(iw.stage)]
    /\ UNCHANGED <<win, attn, ca, rg, blk, fwd>>

\* one iteration of the comprehension: the arguments are evaluated left to
\* right, any subscript out of range raises IndexError; otherwise Block is
\* constructed with them.
IWBlock ==
    /\ iw.pc = "block"
    /\ iw.i < depths[iw.stage]
    /\ LET ok == /\ iw.i < MixBlock1Len
                 /\ PyInRange(embed_dims, iw.i)
                 /\ PyInRange(num_heads, iw.i)
                 /\ PyInRange(iw.do_gmsa, iw.i)
       IN IF ok
          THEN iw' = [iw EXCEPT !.i = iw.i + 1,
                         !.building = Append(iw.building,
                             [stage |-> iw.stage, i |-> iw.i, gt_num |-> iw.gt_num,
                              dim |-> embed_dims[iw.i + 1],
                              num_heads |-> num_heads[iw.i + 1],
                              do_gmsa |-> iw.do_gmsa[iw.i + 1]])]
          ELSE iw' = [iw EXCEPT !.pc = "raised", !.err = "IndexError"]
    /\ UNCHANGED <<win, attn, ca, rg, blk, fwd>>

\* the comprehension is exhausted: self.block{s} = nn.ModuleList([...]);
\* self.norm{s} = mix.norm{s}; on to the next stage.
IWAssign ==
    /\ iw.pc = "block"
    /\ iw.i = depths[iw.stage]
    /\ iw' = [iw EXCEPT !.pc = IF iw.stage = 4 THEN "done" ELSE "do_gmsa",
                        !.stage = IF iw.stage = 4 THEN 4 ELSE iw.stage + 1,
                        !.blocks = iw.blocks \o iw.building,
                        !.building = <<>>,
                        !.assigned = iw.stage]
    /\ UNCHANGED <<win, attn, ca, rg, blk, fwd>>

IWNext == IWMix \/ IWDoGmsa \/ IWBlock \/ IWAssign

SpecIW == IWInit /\ [][IWNext]_vars

\* C9: every block init_weights constructs for stage s gets
\* dim = embed_dims[s] and num_heads = num_heads[s], whatever its block
\* index; no subscript goes out of range; and init_weights, once finished,
\* has built depths[s] blocks for each of the four stages.
C9_StageWidthAndHeads ==
    /\ \A k \in 1..Len(iw.building) :
          /\ iw.building[k].dim = embed_dims[iw.building[k].stage]
          /\ iw.building[k].num_heads = num_heads[iw.building[k].stage]
    /\ \A k \in 1..Len(iw.blocks) :
          /\ iw.blocks[k].dim = embed_dims[iw.blocks[k].stage]
          /\ iw.blocks[k].num_heads = num_heads[iw.blocks[k].stage]
    /\ iw.err # "IndexError"
    /\ iw.pc = "done" => Len(iw.blocks) = depths[1] + depths[2] + depths[3] + depths[4]

\* ------------------------------------------------------------------------
\* Bounds of the forward check: the longest block list of a stage, and the
\* image sides tried.
MaxDepth == 2
MaxImage == 2

\* The learned parameters of stage s (lines 295-313), read, never written.
global_token(s) == TI("global_token", <<s>>, <<>>)
pe(s) == TI("pe", <<s>>, <<>>)

\* patch_embed{s}(x) of mix_transformer.py: a strided convolution (stride 4
\* for stage 1, 2 afterwards) giving tokens (B, H*W, embed_dims[s]) and the
\* new H, W.  x is a map [shape |-> (B, C, H, W), val].
PatchEmbed(s, x) ==
    LET stride == IF s = 1 THEN 4 ELSE 2
        H == (x.shape[3] + stride - 1) \div stride
        W == (x.shape[4] + stride - 1) \div stride
    IN [x |-> [shape |-> <<x.shape[1], H * W, embed_dims[s]>>,
               val |-> TI("patch_embed", <<s>>, <<x.val>>)],
        H |-> H, W |-> W]

\* What `x, gt = blk(x, H, W, gt, pe)` binds when block i of stage s returns
\* (line 277): tokens of the shape of x (the residual sums of lines 259-260
\* keep the shape of skip) and the block's global tokens.  A block is called
\* once per pass, so its results are named after the call (stage, index);
\* the call record holds what the call was given.
BlkCallX(s, i, x, gt) == [shape |-> x.shape, val |-> TI("blk.x", <<s, i>>, <<>>)]
BlkCallGt(s, i, x, gt) == TI("blk.gt", <<s, i>>, <<>>)

\* x = self.norm{s}(x); x = x.reshape(B, H, W, -1).permute(0, 3, 1, 2)
\* (lines 378-379): the stage's feature map, (B, C, H, W) with C inferred.
FwdFeatureMap(s, B, H, W, x) ==
    [shape |-> <<B, Prod(x.shape) \div (B * H * W), H, W>>,
     val |-> TI("norm", <<s>>, <<x.val>>)]

FwdAppendInFront(outs, m) == <<m>> \o outs

\* outs.append(x)  (lines 380, 389, 398, 407).
FwdAppend(outs, m) == Append(outs, m)

FwdStageGtCarried(f, s) == f.gt

\* gt = self.global_token{s}  (lines 375, 384, 393, 402).
FwdStageGt(f, s) == global_token(s)

\* ------------------------------------------------------------------------
\* Specification SpecFwd: forward(x) = forward_features(x), one statement
\* group per step.  self.block{s} is a list of lens[s] blocks; `blk(...)`
\* either returns or raises (SpecAttn and SpecBlk say which of the two the
\* blocks as written do), and forward_features is followed for both.  The
\* lists have the lengths init_weights is written to give them (depths), or
\* any lengths up to MaxDepth.  calls records every block call: stage,
\* index, the tokens and global tokens given, the global tokens returned.

FwdInit ==
    /\ \E B \in 1..MaxB, side \in 1..MaxImage, lens \in [1..4 -> 0..MaxDepth] \cup {depths} :
          fwd = [pc |-> "l370", B |-> 0, stage |-> 0, i |-> 0, lens |-> lens,
                 image |-> [shape |-> <<B, 3, 32 * side, 32 * side>>, val |-> T("image", <<>>)],
                 x |-> [shape |-> <<B, 3, 32 * side, 32 * side>>, val |-> T("image", <<>>)],
                 H |-> 0, W |-> 0, gt |-> NoTerm,
                 outs |-> <<>>, order |-> <<>>, embed_in |-> <<>>, calls |-> <<>>,
                 ret |-> <<>>, err |-> "none"]
    /\ win = Idle /\ attn = Idle /\ ca = Idle /\ rg = Idle /\ blk = Idle /\ iw = Idle

\* lines 370-371: B = x.shape[0]; outs = [].
FwdStart ==
    /\ fwd.pc = "l370"
    /\ fwd' = [fwd EXCEPT !.pc = "embed", !.B = fwd.x.shape[1], !.outs = <<>>, !.stage = 1]
    /\ UNCHANGED <<win, attn, ca, rg, blk, iw>>

\* x, H, W = self.patch_embed{s}(x); gt = self.global_token{s}
\* (lines 374-375, 383-384, 392-393, 401-402).
FwdEmbed ==
    /\ fwd.pc = "embed"
    /\ LET e == PatchEmbed(fwd.stage, fwd.x)
       IN fwd' = [fwd EXCEPT !.pc = "blocks", !.i = 0,
                             !.x = e.x, !.H = e.H, !.W = e.W,
                             !.gt = FwdStageGt(fwd, fwd.stage),
                             !.order = Append(fwd.order, fwd.stage),
                             !.embed_in = Append(fwd.embed_in, fwd.x)]
    /\ UNCHANGED <<win, attn, ca, rg, blk, iw>>

\* one iteration of `for i, blk in enumerate(self.block{s})`, the block
\* returning (lines 376-377, 385-386, 394-395, 403-404).
FwdBlockReturns ==
    /\ fwd.pc = "blocks"
    /\ fwd.i < fwd.lens[fwd.stage]
    /\ fwd' = [fwd EXCEPT !.i = fwd.i + 1,
                          !.x = BlkCallX(fwd.stage, fwd.i, fwd.x, fwd.gt),
                          !.gt = BlkCallGt(fwd.stage, fwd.i, fwd.x, fwd.gt),
                          !.calls = Append(fwd.calls,
                              [stage |-> fwd.stage, i |-> fwd.i, x_in |-> fwd.x.val, pe |-> pe(fwd.stage),
                               gt_in |-> fwd.gt,
                               gt_out |-> BlkCallGt(fwd.stage, fwd.i, fwd.x, fwd.gt)])]
    /\ UNCHANGED <<win, attn, ca, rg, blk, iw>>

\* the same iteration, the block raising: the exception leaves forward.
FwdBlockRaises ==
    /\ fwd.pc = "blocks"
    /\ fwd.i < fwd.lens[fwd.stage]
    /\ fwd' = [fwd EXCEPT !.pc = "raised", !.err = "TypeError",
                          !.calls = Append(fwd.calls,
                              [stage |-> fwd.stage, i |-> fwd.i, x_in |-> fwd.x.val, pe |-> pe(fwd.stage),
                               gt_in |-> fwd.gt,
                               gt_out |-> NoTerm])]
    /\ UNCHANGED <<win, attn, ca, rg, blk, iw>>

\* the loop is exhausted: norm, reshape, permute, append
\* (lines 378-380, 387-389, 396-398, 405-407).
FwdStageEnd ==
    /\ fwd.pc = "blocks"
    /\ fwd.i = fwd.lens[fwd.stage]
    /\ LET m == FwdFeatureMap(fwd.stage, fwd.B, fwd.H, fwd.W, fwd.x)
       IN fwd' = [fwd EXCEPT !.pc = IF fwd.stage = 4 THEN "l409" ELSE "embed",
                             !.stage = IF fwd.stage = 4 THEN 4 ELSE fwd.stage + 1,
                             !.x = m,
                             !.outs = FwdAppend(fwd.outs, m)]
    /\ UNCHANGED <<win, attn, ca, rg, blk, iw>>

\* line 409 and forward (lines 411-415): return outs.
FwdReturn ==
    /\ fwd.pc = "l409"
    /\ fwd' = [fwd EXCEPT !.pc = "returned", !.ret = fwd.outs]
    /\ UNCHANGED <<win, attn, ca, rg, blk, iw>>

FwdNext ==
    FwdStart \/ FwdEmbed \/ FwdBlockReturns \/ FwdBlockRaises \/ FwdStageEnd
    \/ FwdReturn

SpecFwd == FwdInit /\ [][FwdNext]_vars

\* C2: a forward call that returns hands back exactly 4 maps; the stages ran
\* in the order 1, 2, 3, 4; entry k is the normalized output of stage k's
\* last block (of its patch embedding when the stage has no block), has
\* embed_dims[k] channels, and is what stage k+1's patch embedding was
\* given; and while the call runs, stage s starts with exactly s-1 maps
\* appended.
C2_FourMapsInOrder ==
    /\ fwd.pc \in {"embed", "blocks"} => Len(fwd.outs) = fwd.stage - 1
    /\ fwd.pc \in {"l409", "returned"} => Len(fwd.outs) = 4
    /\ fwd.pc = "returned" =>
          /\ Len(fwd.ret) = 4
          /\ fwd.order = <<1, 2, 3, 4>>
          /\ fwd.embed_in[1] = fwd.image
          /\ Len(fwd.calls) = fwd.lens[1] + fwd.lens[2] + fwd.lens[3] + fwd.lens[4]
          /\ \A k \in 1..4 :
                /\ fwd.ret[k].val.op = "norm" /\ fwd.ret[k].val.id = <<k>>
                /\ fwd.ret[k].shape[1] = fwd.image.shape[1]
                /\ fwd.ret[k].shape[2] = embed_dims[k]
                /\ fwd.ret[k].val.args[1].op = IF fwd.lens[k] = 0 THEN "patch_embed" ELSE "blk.x"
                /\ fwd.ret[k].val.args[1].id =
                      IF fwd.lens[k] = 0 THEN <<k>> ELSE <<k, fwd.lens[k] - 1>>
                /\ k < 4 => fwd.embed_in[k + 1] = fwd.ret[k]

C2_Witness ==
    /\ fwd.pc = "returned"
    /\ Len(fwd.ret) = 4
    /\ fwd.lens = depths
    /\ Len(fwd.calls) = depths[1] + depths[2] + depths[3] + depths[4]
    /\ \A k \in 1..4 : fwd.ret[k].shape[2] = embed_dims[k]
    /\ fwd.ret[1].shape[3] > fwd.ret[2].shape[3]
    /\ fwd.ret[3].shape[3] > fwd.ret[4].shape[3]

\* C7: in every forward pass, the first block of stage s is given stage s's
\* own parameter global_token_s, whatever the previous stage ended with, and
\* block i+1 of a stage is given exactly what block i of that stage
\* returned.
C7_GlobalTokensPerStage ==
    \A j \in 1..Len(fwd.calls) :
        LET c == fwd.calls[j]
        IN /\ c.i = 0 => c.gt_in = global_token(c.stage)
           /\ c.i > 0 =>
                 /\ j > 1
                 /\ fwd.calls[j - 1].stage = c.stage
                 /\ fwd.calls[j - 1].i = c.i - 1
                 /\ c.gt_in = fwd.calls[j - 1].gt_out

C7_Witness ==
    /\ fwd.pc = "returned"
    /\ \E j \in 2..Len(fwd.calls) :
          /\ fwd.calls[j].stage = 2 /\ fwd.calls[j].i = 0
          /\ fwd.calls[j - 1].stage = 1 /\ fwd.calls[j - 1].i > 0
          /\ fwd.calls[j - 1].gt_out # fwd.calls[j].gt_in
          /\ fwd.calls[j].gt_in = global_token(2)
    /\ \E j \in 2..Len(fwd.calls) :
          /\ fwd.calls[j].i = 1
          /\ fwd.calls[j].gt_in = fwd.calls[j - 1].gt_out
          /\ fwd.calls[j].gt_in.op = "blk.gt"

====
